---- MODULE Spec2Model ----
(***************************************************************************)
(* Model of the two algorithms of JaltolAPI's gee_api package:             *)
(*   - the control-village matcher (ee_processing.compare_village and its  *)
(*     caller views.get_control_village), and                              *)
(*   - the equivalent-circle sampler (process_custom_polygon, in           *)
(*     polygon_processing.py and in custom_polygon.py).                    *)
(* The Earth Engine backend is a read-only oracle: the vector dataset, the *)
(* slope statistics, the areas and the land-cover pixels are drawn in the  *)
(* initial state, and the operators below compute on them what the Earth   *)
(* Engine calls of the source compute.                                     *)
(***************************************************************************)
EXTENDS Integers, Sequences, FiniteSets, TLC

\* ------------------------------------------------------------------ bounds
\* Number of features of the SHRUG dataset besides the requested village.
NumSiblings == 2

\* Number of features the control-village selector can match.
MaxControlFeatures == 2
\* Number of land-cover pixels of the control geometry.
NumPixels == 2
\* Number of calls of the matcher or the sampler that run at the same time.
NumCalls == 2
\* Number of columns of an uploaded CSV file.
MaxColumns == 3
\* Number of data rows of an uploaded CSV file.
MaxRows == 3
\* Number of confirm requests on one dataset.
MaxRuns == 2

\* ------------------------------------------------------- program constants
compare_village_buffer == 5000
\* polygon_processing.py: the floor under the control area, the default that
\* replaces it, the default of an empty control collection, the minimum
\* radius, and 3.14159 as 314159 / PiScale.
MinControlArea == 10000
DefaultControlArea == 100000
EmptyControlArea == 1000000
MinRadius == 30
PiDigits == 314159
PiScale == 100000
\* Lengths are kept in centimetres, areas in square metres.
CmPerM == 100

\* Attribute values of the modelled dataset.  Slope statistics are in tenths
\* (125 stands for 12.5); positions are metres along a line.
VillageNames == {"", "a", "b"}
Subdistricts == {"s1", "s2"}
SiblingPositions == {4000, 9000}
SiblingSlopes == {110, 130, 200}
TreatedSlopes == {0, 125}

VARIABLES
    shrug,        \* the SHRUG dataset: a sequence of features, in backend order
    unionSlope,   \* slope statistic over the merged geometry of same-named features
    request,      \* parameters of the last get_control_village request
    selected,     \* what compare_village returned for it
    response,     \* the JsonResponse of get_control_village
    custom_polygon,   \* the features of the uploaded GeoJSON polygon
    control_village,  \* the features the control-village selector matches
    num_points,       \* the requested number of circles
    pixels,           \* the land-cover pixels of the control geometry
    failAt,           \* the backend call that fails in this run ("none": no call)
    result,           \* what process_custom_polygon returned
    call,             \* the last call of a helper function and what it returned
    store,            \* continuous monitoring: the dataset and the ingested rows
    pc,               \* concurrent calls: the next step of each call
    args,             \* concurrent calls: the arguments of each call
    frames,           \* concurrent calls: the local variables of each frame
    ret               \* concurrent calls: what each call returned

matcherVars == <<shrug, unionSlope, request, selected, response>>
samplerVars == <<custom_polygon, control_village, num_points, pixels, failAt, result>>
kitVars == <<call, store>>
callVars == <<pc, args, frames, ret>>
vars == <<matcherVars, samplerVars, kitVars, callVars>>

Abs(x) == IF x < 0 THEN -x ELSE x

\* The Python/Earth Engine null value, and "nothing yet".
Null == [null |-> TRUE]
NoRequest == [none |-> TRUE]

\* -------------------------------------------------------------- the dataset
Feature(i, n, s, p, sl) ==
    [id |-> i, village_na |-> n, subdistric |-> s, pos |-> p, slope |-> sl]

SiblingFeatures(i) ==
    { Feature(i, n, s, p, sl) :
        n \in VillageNames, s \in Subdistricts, p \in SiblingPositions,
        sl \in SiblingSlopes }

RECURSIVE SiblingSeqs(_)
SiblingSeqs(k) ==
    IF k = 0 THEN { <<>> }
    ELSE { Append(s, f) : s \in SiblingSeqs(k - 1), f \in SiblingFeatures(k + 1) }

\* Feature 1 is the village the requests name: "a" in subdistrict "s1".
Datasets ==
    { <<Feature(1, "a", "s1", 0, sl)>> \o s :
        sl \in TreatedSlopes, s \in SiblingSeqs(NumSiblings) }

\* ------------------------------------------------- Earth Engine primitives
\* ee.Number arithmetic on exact fractions [n, d] with d > 0.
Frac(n, d) == [n |-> n, d |-> d]

\* ee.Number.subtract
EESubtract(a, b) == Frac(a.n * b.d - b.n * a.d, a.d * b.d)

\* ee.Number.divide: "returning 0 for division by 0".
EEDivide(a, b) ==
    IF b.n = 0 THEN Frac(0, 1)
    ELSE IF b.n < 0 THEN Frac(-(a.n * b.d), a.d * (-b.n))
    ELSE Frac(a.n * b.d, a.d * b.n)

\* ee.Number.multiply by an integer
EEMultiply(a, k) == Frac(a.n * k, a.d)

\* ee.Number.abs
EEAbs(a) == Frac(Abs(a.n), a.d)

FracLess(a, b) == a.n * b.d < b.n * a.d

\* FeatureCollection.first(): the first element, null for an empty collection.
EEFirst(fc) == IF Len(fc) = 0 THEN Null ELSE fc[1]

\* FeatureCollection.sort(property): ascending, elements with equal keys keep
\* their order (insertion of each element after the elements not greater).
RECURSIVE InsertSorted(_, _)
InsertSorted(sorted, f) ==
    IF sorted = <<>> THEN <<f>>
    ELSE IF FracLess(f.slope_diff, sorted[1].slope_diff)
         THEN <<f>> \o sorted
         ELSE <<sorted[1]>> \o InsertSorted(Tail(sorted), f)

RECURSIVE SortFrom(_, _)
SortFrom(fc, acc) ==
    IF fc = <<>> THEN acc ELSE SortFrom(Tail(fc), InsertSorted(acc, fc[1]))

\* A sort that places an element before the elements equal to it: the order of
\* ties is reversed.
RECURSIVE InsertBeforeEqual(_, _)
InsertBeforeEqual(sorted, f) ==
    IF sorted = <<>> THEN <<f>>
    ELSE IF ~FracLess(sorted[1].slope_diff, f.slope_diff)
         THEN <<f>> \o sorted
         ELSE <<sorted[1]>> \o InsertBeforeEqual(Tail(sorted), f)

RECURSIVE SortFromUnstable(_, _)
SortFromUnstable(fc, acc) ==
    IF fc = <<>> THEN acc
    ELSE SortFromUnstable(Tail(fc), InsertBeforeEqual(acc, fc[1]))

SortBySlopeDiffTiesReversed(fc) == SortFromUnstable(fc, <<>>)

SortBySlopeDiff(fc) == SortFrom(fc, <<>>)

\* geometry().buffer(d) of a collection or a feature: the places within d of
\* one of its features.  A geometry is the set of positions it is built from
\* plus the distance it was grown by.
Geometry(fc) == [at |-> { fc[i].pos : i \in 1..Len(fc) }, grown |-> 0]
EEBuffer(g, d) == [at |-> g.at, grown |-> g.grown + d]

\* FeatureCollection.filterBounds(geometry): the features that intersect it.
Intersects(f, g) == \E p \in g.at : Abs(f.pos - p) <= g.grown
FilterBounds(fc, g) == SelectSeq(fc, LAMBDA f : Intersects(f, g))

\* ---------------------------------------------------------- ee_processing
\* FeatureCollection.filter(ee.Filter...) is SelectSeq: it keeps the order of
\* the collection.
\* subdistrict_boundary: state and district are one fixed pair in the model.
subdistrict_boundary(subdistrict_name) ==
    SelectSeq(shrug, LAMBDA f : f.subdistric = subdistrict_name)

\* village_boundary without village_id (as compare_village calls it).
village_boundary(subdistrict_name, village_name) ==
    SelectSeq(shrug, LAMBDA f : /\ f.subdistric = subdistrict_name
                               /\ f.village_na = village_name)

\* The slope statistic of a geometry: the feature's own for one feature, the
\* backend's value for the merged geometry of several.
SlopeStdDev(fc) == IF Len(fc) = 1 THEN fc[1].slope ELSE unionSlope

\* compute_slope on a feature of the pool.
compute_slope(f) == ("slope_std_dev" :> f.slope) @@ f

\* get_buffer
get_buffer(fc) == EEBuffer(Geometry(fc), compare_village_buffer)

\* subtract_value without the abs(): a signed difference.
subtract_value_signed(f, value_to_subtract) ==
    ("slope_diff" :>
        EEMultiply(EEDivide(EESubtract(Frac(f.slope_std_dev, 1),
                                       Frac(value_to_subtract, 1)),
                            Frac(value_to_subtract, 1)), 100)) @@ f

\* subtract_value dividing by the candidate's statistic instead of the
\* treated one.
subtract_value_over_candidate(f, value_to_subtract) ==
    ("slope_diff" :>
        EEAbs(EEMultiply(EEDivide(EESubtract(Frac(f.slope_std_dev, 1),
                                             Frac(value_to_subtract, 1)),
                                  Frac(f.slope_std_dev, 1)), 100))) @@ f

\* compare_village.subtract_value
subtract_value(f, value_to_subtract) ==
    ("slope_diff" :>
        EEAbs(EEMultiply(EEDivide(EESubtract(Frac(f.slope_std_dev, 1),
                                             Frac(value_to_subtract, 1)),
                                  Frac(value_to_subtract, 1)), 100))) @@ f

\* The collection compare_village scores (buffer_fc, before map(compute_slope)).
buffer_fc(subdistrict_name, village_name) ==
    LET village == village_boundary(subdistrict_name, village_name)
        inBounds == FilterBounds(subdistrict_boundary(subdistrict_name),
                                 get_buffer(village))
        spatial == SelectSeq(inBounds, LAMBDA f : ~(f.village_na = village_name))
    IN  SelectSeq(spatial, LAMBDA f : ~(f.village_na = ""))

\* buffer_fc with map(compute_slope) and map(subtract_value) applied.
scored_fc(subdistrict_name, village_name) ==
    LET value_to_subtract ==
            SlopeStdDev(village_boundary(subdistrict_name, village_name))
        pool == buffer_fc(subdistrict_name, village_name)
    IN  [i \in 1..Len(pool) |->
            subtract_value(compute_slope(pool[i]), value_to_subtract)]

\* compare_village: builds the Earth Engine expression and returns it; nothing
\* in it raises for an empty pool or a zero statistic.
compare_village(subdistrict_name, village_name) ==
    [raised |-> FALSE,
     value |-> EEFirst(SortBySlopeDiff(scored_fc(subdistrict_name, village_name)))]

\* ------------------------------------------------------------------ views
\* The raw village_name parameter: "base" or "base - idpart" (idpart 0: none).
RawNames == { [base |-> b, idpart |-> i] : b \in {"", "a"}, i \in {0, 1} }
RawIds == {0, 1}

\* JsonResponse(data): TypeError unless data is a dict (safe=True).
JsonResponse(data) ==
    IF data = Null
    THEN [status |-> 500, body |-> [error |-> "TypeError"]]
    ELSE [status |-> 200, body |-> data]

\* get_control_village
GetControlVillage(raw_name, raw_id) ==
    LET village_name == raw_name.base
        village_id == IF raw_name.idpart # 0 /\ raw_id = 0
                      THEN raw_name.idpart ELSE raw_id
    IN  /\ request' = [village_name |-> village_name, village_id |-> village_id]
        /\ IF village_name = ""
           THEN /\ selected' = NoRequest
                /\ response' = [status |-> 400, body |-> [error |-> "required"]]
           ELSE LET control == compare_village("s1", village_name)
                IN  /\ selected' = control
                    /\ response' = IF control.raised
                                   THEN [status |-> 500,
                                         body |-> [error |-> "ValueError"]]
                                   ELSE JsonResponse(control.value)
        /\ UNCHANGED <<shrug, unionSlope>>
        /\ UNCHANGED <<samplerVars, kitVars, callVars>>

HasDuplicateName(ds) ==
    \E i \in 2..Len(ds) : ds[i].village_na = "a" /\ ds[i].subdistric = "s1"

Init ==
    /\ shrug \in Datasets
    /\ unionSlope \in TreatedSlopes
    /\ HasDuplicateName(shrug) \/ unionSlope = shrug[1].slope
    /\ request = NoRequest
    /\ selected = NoRequest
    /\ response = NoRequest
    /\ custom_polygon = <<>>
    /\ control_village = <<>>
    /\ num_points = 0
    /\ pixels = <<>>
    /\ failAt = "none"
    /\ result = NoRequest
    /\ call = NoRequest
    /\ store = NoRequest
    /\ pc = <<>> /\ args = <<>> /\ frames = <<>> /\ ret = <<>>

Next == \E raw_name \in RawNames, raw_id \in RawIds :
            GetControlVillage(raw_name, raw_id)

Spec == Init /\ [][Next]_vars

\* ------------------------------------------------- a dataset of one village
\* The village "a" with the slope statistic 12.5 and three named neighbours
\* of its subdistrict within the 5000 buffer, with the statistics 11.0, 13.0
\* and 20.0 in any backend order.
NeighbourSlopes == <<110, 130, 200>>
NeighbourPositions == {1000, 4000}
NeighbourOrders ==
    { o \in [1..Len(NeighbourSlopes) -> 1..Len(NeighbourSlopes)] :
        \A i, j \in DOMAIN o : o[i] = o[j] => i = j }

ScenarioDatasets ==
    { <<Feature(1, "a", "s1", 0, 125)>>
        \o [i \in 1..Len(NeighbourSlopes) |->
               Feature(1 + o[i], "b", "s1", p[i], NeighbourSlopes[o[i]])] :
        o \in NeighbourOrders,
        p \in [1..Len(NeighbourSlopes) -> NeighbourPositions] }

ScenarioInit ==
    /\ shrug \in ScenarioDatasets
    /\ unionSlope = shrug[1].slope
    /\ request = NoRequest
    /\ selected = NoRequest
    /\ response = NoRequest
    /\ custom_polygon = <<>>
    /\ control_village = <<>>
    /\ num_points = 0
    /\ pixels = <<>>
    /\ failAt = "none"
    /\ result = NoRequest
    /\ call = NoRequest
    /\ store = NoRequest
    /\ pc = <<>> /\ args = <<>> /\ frames = <<>> /\ ret = <<>>

ScenarioSpec == ScenarioInit /\ [][Next]_vars

\* ================================================================ sampler
\* ------------------------------------------------------------- arithmetic
Max(a, b) == IF a >= b THEN a ELSE b
Min(a, b) == IF a <= b THEN a ELSE b

\* Long division, so that no intermediate value leaves the 32-bit integers:
\* from <<quotient, remainder>> of x / c to those of (x * k) / c.
MulDivStep(qr, k, c) == <<(qr[1] * k) + ((qr[2] * k) \div c), (qr[2] * k) % c>>

\* floor(a * 10^9 / c), for c below 2 * 10^7.
ScaledDivFloor(a, c) ==
    LET q0 == <<a \div c, a % c>>
        q2 == MulDivStep(q0, 100, c)
        q4 == MulDivStep(q2, 100, c)
        q6 == MulDivStep(q4, 100, c)
        q8 == MulDivStep(q6, 100, c)
    IN  MulDivStep(q8, 10, c)[1]

\* floor(sqrt(x)) by bisection on lo..hi, lo * lo <= x < (hi + 1) * (hi + 1).
RECURSIVE SqrtBetween(_, _, _)
SqrtBetween(x, lo, hi) ==
    IF lo = hi THEN lo
    ELSE LET mid == (lo + hi + 1) \div 2
         IN  IF mid * mid <= x THEN SqrtBetween(x, mid, hi)
             ELSE SqrtBetween(x, lo, mid - 1)

\* 46340 is the largest root of a 32-bit integer.
FloorSqrt(x) == SqrtBetween(x, 0, 46340)

\* ------------------------------------------------------- backend geometry
\* geometry().area() of a collection: the sum of its features' areas (the
\* features of one selector do not overlap).
RECURSIVE AreaOf(_)
AreaOf(fc) == IF fc = <<>> THEN 0 ELSE fc[1].area + AreaOf(Tail(fc))

\* A buffer that takes the distance without its sign: always outward.
gen_buffer_outward(fc, radius) ==
    IF fc = <<>> THEN {}
    ELSE { i \in 1..Len(pixels) : (pixels[i].depth * CmPerM) >= -Abs(radius) }

\* The pixels of the control geometry that lie in its inward buffer by radius:
\* those at least radius from the boundary; none for an empty collection.
gen_buffer(fc, radius) ==
    IF fc = <<>> THEN {}
    ELSE { i \in 1..Len(pixels) : (pixels[i].depth * CmPerM) >= -radius }

\* Bhuvan LULC classes for crops.
target_classes == {2, 6, 13, 3, 4, 5}

\* A mask that keeps every pixel of the region of interest.
crop_mask_image_unmasked(roi) == roi

\* crop_mask_image: the pixels of the region of interest whose class is one of
\* target_classes.
crop_mask_image(roi) == { i \in roi : pixels[i].class \in target_classes }

\* gen_points_crop (stratifiedSample): the possible draws of n points from the
\* one class of the mask; every pixel of the class when it has fewer than n.
gen_points_crop(mask, n) ==
    { S \in SUBSET mask : Cardinality(S) = Min(Max(n, 0), Cardinality(mask)) }

\* The points of a draw as a collection, in pixel order.
RECURSIVE PointsOf(_, _)
PointsOf(S, k) ==
    IF S = {} THEN <<>>
    ELSE LET m == CHOOSE x \in S : \A y \in S : x <= y
         IN  <<[id |-> k, pixel |-> m]>> \o PointsOf(S \ {m}, k + 1)

\* ------------------------------------------------------ polygon_processing
\* calculate_area without the test of the collection's size: the area 0 of an
\* empty collection falls into the "invalid area" branch.
PP_calculate_area_unchecked(fc, fails) ==
    IF fails THEN 1
    ELSE IF AreaOf(fc) <= 0 THEN 1
    ELSE AreaOf(fc)

\* calculate_area; fails: the backend call raises inside the try.
PP_calculate_area(fc, fails) ==
    IF fails THEN 1
    ELSE IF Len(fc) = 0 THEN 0
    ELSE IF AreaOf(fc) <= 0 THEN 1
    ELSE AreaOf(fc)

\* calculate_radius with a guard on n alone: the formula is applied to a
\* polygon_area of 0.
PP_calculate_radius_area_unguarded(polygon_area, n) ==
    IF n <= 0 THEN MinRadius * CmPerM
    ELSE FloorSqrt(ScaledDivFloor(polygon_area, n * PiDigits))

\* calculate_radius, in centimetres: (polygon_area / (n * 3.14159)) ** 0.5,
\* or 30 for non-positive inputs.  The radius in centimetres is the square
\* root of polygon_area * CmPerM^2 * PiScale / (n * PiDigits), with
\* CmPerM^2 * PiScale = 10^9.
PP_calculate_radius(polygon_area, n) ==
    IF polygon_area <= 0 \/ n <= 0 THEN MinRadius * CmPerM
    ELSE FloorSqrt(ScaledDivFloor(polygon_area, n * PiDigits))

\* A floor that raises a small control area to the floor itself.
PP_control_area_raised_to_floor(measured, polygon_area) ==
    IF measured < MinControlArea THEN MinControlArea ELSE measured

\* A floor that substitutes the default alone, without polygon_area * 2.
PP_control_area_default_only(measured, polygon_area) ==
    IF measured < MinControlArea THEN DefaultControlArea ELSE measured

\* The control area after the floor: max(polygon_area * 2, 100000) below 10000.
PP_control_area(measured, polygon_area) ==
    IF measured < MinControlArea
    THEN Max(polygon_area * 2, DefaultControlArea)
    ELSE measured

\* No clamp: the polygon area is used whatever the control area.
PP_effective_polygon_area_unclamped(polygon_area, control_area) == polygon_area

\* The effective polygon area: 80% of the control area when the polygon is
\* larger than it.
PP_effective_polygon_area(polygon_area, control_area) ==
    IF polygon_area > control_area THEN (control_area * 8) \div 10
    ELSE polygon_area

\* No reduction: the whole control collection is used.
PP_first_feature_all(cv) == cv

\* The control collection after the reduction to its first feature.
PP_first_feature(cv) == IF Len(cv) = 0 THEN cv ELSE <<cv[1]>>

\* control_area as the if-branch for an empty control collection leaves it
\* (0: not assigned yet).
PP_default_control_area(cv) == IF Len(cv) = 0 THEN EmptyControlArea ELSE 0

\* control_area = calculate_area(control_village): the assignment that follows
\* the if/else for every collection; the value assigned before is dropped.
PP_measured_control_area(assigned_before, cv, fails) == PP_calculate_area(cv, fails)

\* process_custom_polygon of polygon_processing.py for one draw S of the
\* sampler: the returned dict, or the exception that leaves the function.
PP_result(polygon, cv_in, n, fail, S) ==
    IF fail = "cv_size"
    THEN [impl |-> "polygon_processing", raised |-> TRUE, error |-> "backend"]
    ELSE
    LET cv == PP_first_feature(cv_in)
        polygon_area == PP_calculate_area(polygon, fail = "polygon_area")
        control_area == PP_control_area(
                            PP_measured_control_area(
                                PP_default_control_area(cv_in), cv,
                                fail = "control_area"),
                            polygon_area)
        effective_polygon_area ==
            PP_effective_polygon_area(polygon_area, control_area)
        radius == PP_calculate_radius(effective_polygon_area, n)
        points == PointsOf(S, 1)
    IN  [impl |-> "polygon_processing",
         raised |-> FALSE,
         polygon_area |-> polygon_area,
         control_area |-> control_area,
         radius |-> radius,
         points |-> IF fail = "sample" THEN [unevaluated |-> TRUE] ELSE points,
         circles |->
            IF fail = "sample"
            THEN <<[center |-> [centroid_of |-> { cv[i].id : i \in 1..Len(cv) }],
                    buffered_by |-> radius,
                    properties |-> <<>>]>>
            ELSE [i \in 1..Len(points) |->
                    [center |-> [pixel |-> points[i].pixel],
                     buffered_by |-> radius,
                     properties |-> [radius |-> radius]]]]

\* The draws process_custom_polygon can get from gen_points_crop.
PP_draws(polygon, cv_in, n, fail) ==
    IF fail \in {"cv_size", "sample"} THEN { {} }
    ELSE LET r == PP_result(polygon, cv_in, n, fail, {})
         IN  gen_points_crop(
                 crop_mask_image(gen_buffer(PP_first_feature(cv_in), -r.radius)), n)

PP_process_custom_polygon ==
    /\ \E S \in PP_draws(custom_polygon, control_village, num_points, failAt) :
          result' = PP_result(custom_polygon, control_village, num_points, failAt, S)
    /\ UNCHANGED <<custom_polygon, control_village, num_points, pixels, failAt>>
    /\ UNCHANGED <<matcherVars, kitVars, callVars>>

\* ----------------------------------------------------------- custom_polygon
\* calculate_radius of custom_polygon.py, for n > 0 and polygon_area >= 0.
CP_calculate_radius(polygon_area, n) ==
    FloorSqrt(ScaledDivFloor(polygon_area, n * PiDigits))

\* process_custom_polygon of custom_polygon.py (the one the view calls).
CP_result(polygon, cv, n, fail, S) ==
    IF fail \in {"polygon_area", "control_area", "sample"}
    THEN [impl |-> "custom_polygon", raised |-> TRUE, error |-> "backend"]
    ELSE
    LET polygon_area == AreaOf(polygon)
        control_area == AreaOf(cv)
    IN  IF polygon_area > control_area
        THEN [impl |-> "custom_polygon", raised |-> TRUE, error |-> "ValueError"]
        ELSE IF n = 0
        THEN [impl |-> "custom_polygon", raised |-> TRUE,
              error |-> "ZeroDivisionError"]
        ELSE
        LET radius == CP_calculate_radius(polygon_area, n)
            points == PointsOf(S, 1)
        IN  [impl |-> "custom_polygon",
             raised |-> FALSE,
             polygon_area |-> polygon_area,
             control_area |-> control_area,
             radius |-> radius,
             points |-> points,
             circles |->
                [i \in 1..Len(points) |->
                    [center |-> [pixel |-> points[i].pixel],
                     buffered_by |-> radius,
                     properties |->
                        [radius |-> radius,
                         center_x |-> points[i].pixel,
                         center_y |-> points[i].pixel,
                         control_village |-> { cv[j].id : j \in 1..Len(cv) },
                         circle_id |-> points[i].id]]]]

CP_draws(polygon, cv, n, fail) ==
    LET r == CP_result(polygon, cv, n, fail, {})
    IN  IF r.raised THEN { {} }
        ELSE gen_points_crop(crop_mask_image(gen_buffer(cv, -r.radius)), n)

CP_process_custom_polygon ==
    /\ failAt # "cv_size"
    /\ \E S \in CP_draws(custom_polygon, control_village, num_points, failAt) :
          result' = CP_result(custom_polygon, control_village, num_points, failAt, S)
    /\ UNCHANGED <<custom_polygon, control_village, num_points, pixels, failAt>>
    /\ UNCHANGED <<matcherVars, kitVars, callVars>>

\* ------------------------------------------------------- the sampler's runs
PolygonAreas == {0, 40000, 60000}
ControlAreas == {5000, 20000, 100000}
PixelClasses == {2, 7}
PixelDepths == {40, 200}
PointCounts == {0, 1, 2, 10}
FailurePoints == {"none", "cv_size", "polygon_area", "control_area", "sample"}

RECURSIVE ControlSeqs(_)
ControlSeqs(k) ==
    IF k = 0 THEN { <<>> }
    ELSE { Append(s, [id |-> k, area |-> a]) :
             s \in ControlSeqs(k - 1), a \in ControlAreas }

SamplerInit ==
    /\ custom_polygon \in
          { <<>> } \cup { <<[id |-> 1, area |-> a]>> : a \in PolygonAreas }
    /\ control_village \in UNION { ControlSeqs(k) : k \in 0..MaxControlFeatures }
    /\ num_points \in PointCounts
    /\ pixels \in [1..NumPixels -> [class : PixelClasses, depth : PixelDepths]]
    /\ failAt \in FailurePoints
    /\ result = NoRequest
    /\ shrug = <<>>
    /\ unionSlope = 0
    /\ request = NoRequest
    /\ selected = NoRequest
    /\ response = NoRequest
    /\ call = NoRequest
    /\ store = NoRequest
    /\ pc = <<>> /\ args = <<>> /\ frames = <<>> /\ ret = <<>>

SamplerNext == PP_process_custom_polygon \/ CP_process_custom_polygon

SamplerSpec == SamplerInit /\ [][SamplerNext]_vars

\* ======================================================= concurrent calls
\* Calls of compare_village and of process_custom_polygon (polygon_processing)
\* that run at the same time in threads of one process; every statement that
\* makes a backend round trip or assigns a local variable is one step.
Calls == 1..NumCalls

\* All calls share one frame: the local variables are module-level names.
frame_shared(p) == 1

\* The frame that holds the local variables of call p: Python creates one per
\* call of a function, and neither function declares a global or writes a
\* module attribute.
frame_of(p) == p

Locals(p) == frames[frame_of(p)]

\* The arguments of the calls: two villages for the matcher, two polygons for
\* the sampler.
CallArgs ==
    { [op |-> "compare_village", subdistrict_name |-> "s1", village_name |-> n] :
        n \in {"a", "b"} }
    \cup
    { [op |-> "process_custom_polygon",
       custom_polygon |-> <<[id |-> 1, area |-> a]>>,
       control_village |-> <<[id |-> 1, area |-> 5000], [id |-> 2, area |-> 20000]>>,
       num_points |-> 1] : a \in {40000, 60000} }

\* An assignment to local variables of call p, then the move to pc next.
Assign(p, from, op, locals, next) ==
    /\ pc[p] = from
    /\ args[p].op = op
    /\ frames' = [frames EXCEPT ![frame_of(p)] = locals @@ @]
    /\ pc' = [pc EXCEPT ![p] = next]
    /\ UNCHANGED <<args, ret>>
    /\ UNCHANGED <<matcherVars, samplerVars, kitVars>>

\* process_custom_polygon, lines 111-128: cv_size and the first feature.
PP_step_first_feature(p) ==
    Assign(p, "start", "process_custom_polygon",
           [control_village |-> PP_first_feature(args[p].control_village),
            control_area |-> PP_default_control_area(args[p].control_village)],
           "polygon_area")

\* line 131
PP_step_polygon_area(p) ==
    Assign(p, "polygon_area", "process_custom_polygon",
           [polygon_area |-> PP_calculate_area(args[p].custom_polygon, FALSE)],
           "control_area")

\* line 132
PP_step_control_area(p) ==
    Assign(p, "control_area", "process_custom_polygon",
           [control_area |->
               PP_measured_control_area(Locals(p).control_area,
                                        Locals(p).control_village, FALSE)],
           "floor")

\* lines 137-139
PP_step_floor(p) ==
    Assign(p, "floor", "process_custom_polygon",
           [control_area |->
               PP_control_area(Locals(p).control_area, Locals(p).polygon_area)],
           "clamp")

\* lines 141-147
PP_step_clamp(p) ==
    Assign(p, "clamp", "process_custom_polygon",
           [effective_polygon_area |->
               PP_effective_polygon_area(Locals(p).polygon_area,
                                         Locals(p).control_area)],
           "radius")

\* line 150
PP_step_radius(p) ==
    Assign(p, "radius", "process_custom_polygon",
           [radius |-> PP_calculate_radius(Locals(p).effective_polygon_area,
                                           args[p].num_points)],
           "sample")

\* lines 153-167: the envelope, the mask, the points and the circles.
PP_step_sample(p) ==
    /\ pc[p] = "sample"
    /\ args[p].op = "process_custom_polygon"
    /\ \E S \in gen_points_crop(
                crop_mask_image(gen_buffer(Locals(p).control_village,
                                           -Locals(p).radius)),
                args[p].num_points) :
        LET points == PointsOf(S, 1)
        IN  Assign(p, "sample", "process_custom_polygon",
                   [points |-> points,
                    circles |->
                        [i \in 1..Len(points) |->
                            [center |-> [pixel |-> points[i].pixel],
                             buffered_by |-> Locals(p).radius,
                             properties |-> [radius |-> Locals(p).radius]]]],
                   "return")

\* lines 178-184
PP_step_return(p) ==
    /\ pc[p] = "return"
    /\ args[p].op = "process_custom_polygon"
    /\ ret' = [ret EXCEPT ![p] =
                 [impl |-> "polygon_processing",
                  raised |-> FALSE,
                  polygon_area |-> Locals(p).polygon_area,
                  control_area |-> Locals(p).control_area,
                  radius |-> Locals(p).radius,
                  points |-> Locals(p).points,
                  circles |-> Locals(p).circles]]
    /\ pc' = [pc EXCEPT ![p] = "done"]
    /\ UNCHANGED <<args, frames>>
    /\ UNCHANGED <<matcherVars, samplerVars, kitVars>>

\* compare_village, lines 185-190: village and intervention_slope.
CV_step_village(p) ==
    LET village == village_boundary(args[p].subdistrict_name,
                                    args[p].village_name)
    IN  Assign(p, "start", "compare_village",
               [village |-> village, intervention_slope |-> SlopeStdDev(village)],
               "buffer_fc")

\* lines 191-197: null_filter, spatial_filter, buffer_fc, value_to_subtract.
CV_step_buffer_fc(p) ==
    LET inBounds == FilterBounds(subdistrict_boundary(args[p].subdistrict_name),
                                 get_buffer(Locals(p).village))
        spatial == SelectSeq(inBounds,
                             LAMBDA f : ~(f.village_na = args[p].village_name))
        named == SelectSeq(spatial, LAMBDA f : ~(f.village_na = ""))
    IN  Assign(p, "buffer_fc", "compare_village",
               [buffer_fc |-> [i \in 1..Len(named) |-> compute_slope(named[i])],
                value_to_subtract |-> Locals(p).intervention_slope],
               "select")

\* lines 199-208: map(subtract_value).sort('slope_diff').first(), returned.
CV_step_select(p) ==
    /\ pc[p] = "select"
    /\ args[p].op = "compare_village"
    /\ ret' = [ret EXCEPT ![p] =
                 EEFirst(SortBySlopeDiff(
                     [i \in 1..Len(Locals(p).buffer_fc) |->
                         subtract_value(Locals(p).buffer_fc[i],
                                        Locals(p).value_to_subtract)]))]
    /\ pc' = [pc EXCEPT ![p] = "done"]
    /\ UNCHANGED <<args, frames>>
    /\ UNCHANGED <<matcherVars, samplerVars, kitVars>>

\* The backend the concurrent calls read: three villages of one subdistrict
\* and two cropland pixels deep inside the control village.
ConcInit ==
    /\ shrug = << Feature(1, "a", "s1", 0, 125),
                  Feature(2, "b", "s1", 1000, 110),
                  Feature(3, "c", "s1", 4000, 130) >>
    /\ unionSlope = 125
    /\ pixels = [i \in 1..2 |-> [class |-> 2, depth |-> 200]]
    /\ request = NoRequest /\ selected = NoRequest /\ response = NoRequest
    /\ custom_polygon = <<>> /\ control_village = <<>>
    /\ num_points = 0 /\ failAt = "none"
    /\ result = NoRequest
    /\ call = NoRequest
    /\ store = NoRequest
    /\ args \in [Calls -> CallArgs]
    /\ pc = [p \in Calls |-> "start"]
    /\ frames = [f \in Calls |-> [created |-> TRUE]]
    /\ ret = [p \in Calls |-> NoRequest]

ConcNext ==
    \E p \in Calls :
        \/ PP_step_first_feature(p)
        \/ PP_step_polygon_area(p)
        \/ PP_step_control_area(p)
        \/ PP_step_floor(p)
        \/ PP_step_clamp(p)
        \/ PP_step_radius(p)
        \/ PP_step_sample(p)
        \/ PP_step_return(p)
        \/ CV_step_village(p)
        \/ CV_step_buffer_fc(p)
        \/ CV_step_select(p)

ConcSpec == ConcInit /\ [][ConcNext]_vars

\* ========================================= village_boundary with village_id
\* The backend call of village_boundary that fails in a call ("none": no
\* call): listing the dataset's assets, the size of the id-filtered
\* collection, or the name filter.
BoundaryFailures == {"none", "dataset", "id_lookup", "name_lookup"}

\* village_boundary that returns the id-filtered collection without looking
\* at its size.
village_boundary_uncounted(subdistrict_name, village_name, village_id, fail) ==
    IF fail = "dataset" THEN [raised |-> TRUE, error |-> "ValueError"]
    ELSE IF village_id # 0 /\ fail # "id_lookup"
    THEN [raised |-> FALSE,
          value |-> SelectSeq(shrug, LAMBDA f : /\ f.subdistric = subdistrict_name
                                                /\ f.id = village_id)]
    ELSE IF fail = "name_lookup" THEN [raised |-> TRUE, error |-> "ValueError"]
    ELSE [raised |-> FALSE,
          value |-> village_boundary(subdistrict_name, village_name)]

\* village_boundary(state, district, subdistrict, village_name, village_id);
\* village_id 0 stands for None or ''.  The feature's id is its pc11_tv_id.
village_boundary_by_id(subdistrict_name, village_name, village_id, fail) ==
    IF fail = "dataset" THEN [raised |-> TRUE, error |-> "ValueError"]
    ELSE
    LET village_by_id ==
            SelectSeq(shrug, LAMBDA f : /\ f.subdistric = subdistrict_name
                                        /\ f.id = village_id)
    IN  IF village_id # 0 /\ fail # "id_lookup" /\ Len(village_by_id) > 0
        THEN [raised |-> FALSE, value |-> village_by_id]
        ELSE IF fail = "name_lookup"
        THEN [raised |-> TRUE, error |-> "ValueError"]
        ELSE [raised |-> FALSE,
              value |-> village_boundary(subdistrict_name, village_name)]

village_boundary_call ==
    /\ \E village_name \in {"a", "b"}, village_id \in 0..(Len(shrug) + 1),
          fail \in BoundaryFailures :
          call' = [fn |-> "village_boundary",
                   subdistrict_name |-> "s1", village_name |-> village_name,
                   village_id |-> village_id, fail |-> fail]
                    @@ village_boundary_by_id("s1", village_name, village_id, fail)
    /\ UNCHANGED <<matcherVars, samplerVars, callVars, store>>

\* Datasets for the lookups: the village "a" of "s1" and siblings of any name
\* and subdistrict.
RECURSIVE BoundarySeqs(_)
BoundarySeqs(k) ==
    IF k = 0 THEN { <<>> }
    ELSE { Append(ds, Feature(k + 1, n, sd, 4000, 110)) :
             ds \in BoundarySeqs(k - 1), n \in VillageNames, sd \in Subdistricts }

BoundaryInit ==
    /\ shrug \in { <<Feature(1, "a", "s1", 0, 125)>> \o ds :
                      ds \in BoundarySeqs(NumSiblings) }
    /\ unionSlope = 125
    /\ request = NoRequest /\ selected = NoRequest /\ response = NoRequest
    /\ custom_polygon = <<>> /\ control_village = <<>>
    /\ num_points = 0 /\ pixels = <<>> /\ failAt = "none"
    /\ result = NoRequest
    /\ call = NoRequest
    /\ store = NoRequest
    /\ pc = <<>> /\ args = <<>> /\ frames = <<>> /\ ret = <<>>

BoundaryNext == village_boundary_call

BoundarySpec == BoundaryInit /\ [][BoundaryNext]_vars

\* ==================================================== the helper functions
\* calculate_area of custom_polygon.py: fc.geometry().area().getInfo(), no
\* try and no test of the size.  The geometry of an empty collection has the
\* area 0; a backend error leaves the function.
CP_calculate_area(fc, fails) ==
    IF fails THEN [returns |-> "exception", error |-> "backend"]
    ELSE [returns |-> "float", value |-> AreaOf(fc)]

\* calculate_radius of custom_polygon.py on any numbers: n = 0 divides by
\* 0.0, a negative quotient has a complex square root.
CP_calculate_radius_any(polygon_area, n) ==
    IF n = 0 THEN [returns |-> "exception", error |-> "ZeroDivisionError"]
    ELSE IF polygon_area # 0 /\ ((polygon_area < 0) # (n < 0))
    THEN [returns |-> "complex"]
    ELSE [returns |-> "float",
          value |-> CP_calculate_radius(Abs(polygon_area), Abs(n))]

\* The arguments of the calls.
CallCollections ==
    { <<[id |-> 1, area |-> a]>> : a \in PolygonAreas }
        \cup UNION { ControlSeqs(k) : k \in 0..MaxControlFeatures }
CallAreas == {-1, 0, 1, 40000, 60000, 100000}
CallCounts == {-1, 0, 1, 2, 10}

PP_calculate_area_call ==
    /\ \E fc \in CallCollections, fails \in BOOLEAN :
          call' = [fn |-> "calculate_area", impl |-> "polygon_processing",
                   fc |-> fc, fails |-> fails,
                   returns |-> "float", value |-> PP_calculate_area(fc, fails)]
    /\ UNCHANGED <<matcherVars, samplerVars, callVars, store>>

CP_calculate_area_call ==
    /\ \E fc \in CallCollections, fails \in BOOLEAN :
          call' = [fn |-> "calculate_area", impl |-> "custom_polygon",
                   fc |-> fc, fails |-> fails] @@ CP_calculate_area(fc, fails)
    /\ UNCHANGED <<matcherVars, samplerVars, callVars, store>>

PP_calculate_radius_call ==
    /\ \E polygon_area \in CallAreas, n \in CallCounts :
          call' = [fn |-> "calculate_radius", impl |-> "polygon_processing",
                   polygon_area |-> polygon_area, n |-> n,
                   returns |-> "float",
                   value |-> PP_calculate_radius(polygon_area, n)]
    /\ UNCHANGED <<matcherVars, samplerVars, callVars, store>>

CP_calculate_radius_call ==
    /\ \E polygon_area \in CallAreas, n \in CallCounts :
          call' = [fn |-> "calculate_radius", impl |-> "custom_polygon",
                   polygon_area |-> polygon_area, n |-> n]
                      @@ CP_calculate_radius_any(polygon_area, n)
    /\ UNCHANGED <<matcherVars, samplerVars, callVars, store>>

KitInit ==
    /\ call = NoRequest
    /\ store = NoRequest
    /\ shrug = <<>> /\ unionSlope = 0
    /\ request = NoRequest /\ selected = NoRequest /\ response = NoRequest
    /\ custom_polygon = <<>> /\ control_village = <<>>
    /\ num_points = 0 /\ pixels = <<>> /\ failAt = "none"
    /\ result = NoRequest
    /\ pc = <<>> /\ args = <<>> /\ frames = <<>> /\ ret = <<>>

KitNext ==
    \/ PP_calculate_area_call
    \/ CP_calculate_area_call
    \/ PP_calculate_radius_call
    \/ CP_calculate_radius_call

KitSpec == KitInit /\ [][KitNext]_vars

\* ====================================== continuous monitoring: the columns
\* A string is the sequence of its characters.
LowerLetters == {"a", "c", "l", "m", "n", "o", "u"}
DigitChars == <<"0", "1", "2", "3", "4", "5", "6", "7", "8", "9">>
SlugChars == LowerLetters \cup { DigitChars[i] : i \in 1..Len(DigitChars) }

\* str(n) for n >= 0
RECURSIVE Decimal(_)
Decimal(n) ==
    IF n < Len(DigitChars) THEN <<DigitChars[n + 1]>>
    ELSE Decimal(n \div Len(DigitChars)) \o <<DigitChars[(n % Len(DigitChars)) + 1]>>

\* str.lower() on the characters of the model ("A" is the capital letter).
Lower(value) == [i \in 1..Len(value) |-> IF value[i] = "A" THEN "a" ELSE value[i]]

\* str.strip(chars): without the leading and trailing characters of chars.
RECURSIVE LStrip(_, _)
LStrip(value, chars) ==
    IF value # <<>> /\ value[1] \in chars THEN LStrip(Tail(value), chars)
    ELSE value

RECURSIVE RStrip(_, _)
RStrip(value, chars) ==
    IF value # <<>> /\ value[Len(value)] \in chars
    THEN RStrip(SubSeq(value, 1, Len(value) - 1), chars)
    ELSE value

Strip(value, chars) == RStrip(LStrip(value, chars), chars)

\* re.sub(r'[^a-z0-9]+', '_', value): every maximal run of other characters
\* becomes one underscore.
RECURSIVE SubNonSlugRuns(_, _)
SubNonSlugRuns(value, inRun) ==
    IF value = <<>> THEN <<>>
    ELSE IF value[1] \in SlugChars
    THEN <<value[1]>> \o SubNonSlugRuns(Tail(value), FALSE)
    ELSE IF inRun THEN SubNonSlugRuns(Tail(value), TRUE)
    ELSE <<"_">> \o SubNonSlugRuns(Tail(value), TRUE)

\* re.sub(r'_+', '_', value)
RECURSIVE SubUnderscoreRuns(_, _)
SubUnderscoreRuns(value, inRun) ==
    IF value = <<>> THEN <<>>
    ELSE IF value[1] # "_"
    THEN <<value[1]>> \o SubUnderscoreRuns(Tail(value), FALSE)
    ELSE IF inRun THEN SubUnderscoreRuns(Tail(value), TRUE)
    ELSE <<"_">> \o SubUnderscoreRuns(Tail(value), TRUE)

\* DatasetIntrospectionService._slugify
slugify(value) ==
    Strip(SubUnderscoreRuns(SubNonSlugRuns(Lower(Strip(value, {" "})), FALSE),
                            FALSE),
          {"_"})

\* The loop as an if: the counter is raised once.
unique_candidate_once(base, seen) ==
    IF base \in seen THEN base \o <<"_">> \o Decimal(2) ELSE base

\* The while loop of _normalize_columns: the first of base, base_2, base_3,
\* ... that is not in seen.
RECURSIVE NextCandidate(_, _, _, _)
NextCandidate(base, counter, candidate, seen) ==
    IF candidate \in seen
    THEN NextCandidate(base, counter + 1,
                       base \o <<"_">> \o Decimal(counter + 1), seen)
    ELSE candidate

unique_candidate(base, seen) == NextCandidate(base, 1, base, seen)

\* The for loop of _normalize_columns from the column at position idx + 1.
RECURSIVE NormalizeFrom(_, _, _, _)
NormalizeFrom(columns, idx, seen, normalized) ==
    IF idx = Len(columns) THEN normalized
    ELSE LET name == columns[idx + 1]
             slug == slugify(name)
             base == IF slug = <<>>
                     THEN <<"c", "o", "l", "u", "m", "n", "_">> \o Decimal(idx + 1)
                     ELSE slug
             candidate == unique_candidate(base, seen)
         IN  NormalizeFrom(columns, idx + 1, seen \cup {candidate},
                           Append(normalized,
                                  [original |-> name, variable |-> candidate]))

\* DatasetIntrospectionService._normalize_columns
normalize_columns(columns) == NormalizeFrom(columns, 0, {}, <<>>)

\* Column names of the uploaded files: "", "a", "A ", "a_2", "a 2",
\* "column_2".
ColumnNames ==
    { <<>>, <<"a">>, <<"A", " ">>, <<"a", "_", "2">>, <<"a", " ", "2">>,
      <<"c", "o", "l", "u", "m", "n", "_", "2">> }

ColumnLists == UNION { [1..k -> ColumnNames] : k \in 0..MaxColumns }

normalize_columns_call ==
    /\ \E columns \in ColumnLists :
          call' = [fn |-> "_normalize_columns", columns |-> columns,
                   value |-> normalize_columns(columns)]
    /\ UNCHANGED <<matcherVars, samplerVars, callVars, store>>

NormalizeNext == normalize_columns_call

NormalizeSpec == KitInit /\ [][NormalizeNext]_vars

\* ==================================== continuous monitoring: the ingestion
\* Rows buffered before UnifiedTimeSeries.objects.bulk_create
BatchSize == 1000

\* A cell of the data frame is a value or NaN; get_val gives None for NaN.
Cell(x) == [v |-> x]

\* str(get_val(row, id_col))
StrOf(cell) == IF cell = Null THEN "None" ELSE cell.v

\* UnifiedObject.objects.update_or_create: (project, external_id) is unique.
UpdateOrCreate(objects, external_id, latitude, longitude, extra_data) ==
    { o \in objects : o.external_id # external_id }
        \cup { [external_id |-> external_id, latitude |-> latitude,
                longitude |-> longitude, extra_data |-> extra_data] }

\* df[id_col].dropna()
id_values(df) ==
    SelectSeq([i \in 1..Len(df) |-> df[i].id], LAMBDA cell : cell # Null)

\* Series.unique(): the values in the order of their first appearance.
RECURSIVE Unique(_, _)
Unique(values, found) ==
    IF values = <<>> THEN found
    ELSE IF \E i \in 1..Len(found) : found[i] = Head(values)
    THEN Unique(Tail(values), found)
    ELSE Unique(Tail(values), Append(found, Head(values)))

is_snapshot(df) == Len(id_values(df)) = Len(Unique(id_values(df), <<>>))

\* df[df[id_col] == ext_id].iloc[0]
FirstRow(df, ext_id) ==
    df[CHOOSE i \in 1..Len(df) :
           /\ df[i].id = ext_id
           /\ \A j \in 1..(i - 1) : df[j].id # ext_id]

\* The snapshot loop from the row at index: float(None) raises TypeError
\* before the row is written; the rows before it are written already.
RECURSIVE SnapshotRows(_, _, _)
SnapshotRows(df, index, objects) ==
    IF index > Len(df) THEN [raised |-> FALSE, objects |-> objects]
    ELSE LET row == df[index]
         IN  IF row.latitude = Null \/ row.longitude = Null
             THEN [raised |-> TRUE, objects |-> objects]
             ELSE SnapshotRows(df, index + 1,
                               UpdateOrCreate(objects, StrOf(row.id),
                                              row.latitude.v, row.longitude.v,
                                              row.value))

\* The time series path, first loop: one object for every id of unique_ids.
RECURSIVE SeriesObjects(_, _, _)
SeriesObjects(df, unique_ids, objects) ==
    IF unique_ids = <<>> THEN [raised |-> FALSE, objects |-> objects]
    ELSE LET first_row == FirstRow(df, Head(unique_ids))
         IN  IF first_row.latitude = Null \/ first_row.longitude = Null
             THEN [raised |-> TRUE, objects |-> objects]
             ELSE SeriesObjects(df, Tail(unique_ids),
                                UpdateOrCreate(objects, StrOf(Head(unique_ids)),
                                               first_row.latitude.v,
                                               first_row.longitude.v, Null))

\* The time series path, second loop from the row at index: a row whose
\* object does not exist is skipped; a batch of BatchSize readings and the
\* last batch are appended to the table.
RECURSIVE SeriesRows(_, _, _, _, _)
SeriesRows(df, index, objects, ts_objects, series) ==
    IF index > Len(df)
    THEN [raised |-> FALSE,
          series |-> IF ts_objects # <<>> THEN series \o ts_objects ELSE series]
    ELSE LET row == df[index]
             external_id == StrOf(row.id)
         IN  IF ~ \E o \in objects : o.external_id = external_id
             THEN SeriesRows(df, index + 1, objects, ts_objects, series)
             ELSE IF row.value = Null
             THEN [raised |-> TRUE, series |-> series]
             ELSE LET batch == Append(ts_objects,
                                      [object |-> external_id,
                                       timestamp |-> row.timestamp,
                                       value |-> row.value.v])
                  IN  IF Len(batch) >= BatchSize
                      THEN SeriesRows(df, index + 1, objects, <<>>,
                                      series \o batch)
                      ELSE SeriesRows(df, index + 1, objects, batch, series)

\* ETLService.ingest_dataset: the dataset and the two tables after the call.
ingest_dataset(dataset) ==
    LET df == dataset.file
        failed(error) == [dataset EXCEPT !.status = "FAILED",
                                         !.error_message = error]
    IN  IF ~ dataset.column_mapping.id
        THEN failed("'id' column mapping is required")
        ELSE IF is_snapshot(df)
        THEN LET written == SnapshotRows(df, 1, dataset.objects)
             IN  IF written.raised
                 THEN [failed("TypeError") EXCEPT !.objects = written.objects]
                 ELSE [dataset EXCEPT !.status = "INGESTED",
                                      !.objects = written.objects]
        ELSE LET written == SeriesObjects(df, Unique(id_values(df), <<>>),
                                          dataset.objects)
                 readings == SeriesRows(df, 1, written.objects, <<>>,
                                        dataset.series)
             IN  IF written.raised
                 THEN [failed("TypeError") EXCEPT !.objects = written.objects]
                 ELSE IF readings.raised
                 THEN [failed("TypeError") EXCEPT !.objects = written.objects,
                                                  !.series = readings.series]
                 ELSE [dataset EXCEPT !.status = "INGESTED",
                                      !.objects = written.objects,
                                      !.series = readings.series]

\* The rows of the uploaded files: an id or NaN, a latitude or NaN, a
\* longitude, a timestamp, a value or NaN.
Rows ==
    [id : {Cell("w1"), Cell("w2"), Null}, latitude : {Cell(1), Null},
     longitude : {Cell(2)}, timestamp : {1}, value : {Cell(5), Null}]

Files == UNION { [1..k -> Rows] : k \in 0..MaxRows }

\* The 'mapping' of the request body: absent, with the id column, without.
MappingRequests == {Null, [id |-> TRUE], [id |-> FALSE]}

\* RawDatasetViewSet.confirm
confirm ==
    /\ store.runs < MaxRuns
    /\ \E mapping \in MappingRequests :
          LET dataset == IF mapping # Null
                         THEN [store EXCEPT !.column_mapping = mapping]
                         ELSE store
              done == ingest_dataset(dataset)
          IN  store' = [done EXCEPT !.runs = @ + 1,
                                    !.response = IF done.status = "INGESTED"
                                                 THEN "Ingested" ELSE "error"]
    /\ UNCHANGED <<matcherVars, samplerVars, callVars, call>>

\* A dataset after RawDatasetViewSet.create, and empty tables.
ETLInit ==
    /\ call = NoRequest
    /\ \E file \in Files :
          store = [file |-> file, column_mapping |-> [id |-> FALSE],
                   status |-> "PENDING", error_message |-> "",
                   objects |-> {}, series |-> <<>>, runs |-> 0,
                   response |-> ""]
    /\ shrug = <<>> /\ unionSlope = 0
    /\ request = NoRequest /\ selected = NoRequest /\ response = NoRequest
    /\ custom_polygon = <<>> /\ control_village = <<>>
    /\ num_points = 0 /\ pixels = <<>> /\ failAt = "none"
    /\ result = NoRequest
    /\ pc = <<>> /\ args = <<>> /\ frames = <<>> /\ ret = <<>>

ETLNext == confirm

ETLSpec == ETLInit /\ [][ETLNext]_vars

\* ------------------------------------------------- properties: the matcher
\* compare_village ran for the last request.
Served == request # NoRequest /\ request.village_name # ""

TreatedStat == SlopeStdDev(village_boundary("s1", request.village_name))
Pool == buffer_fc("s1", request.village_name)
PoolIds == { Pool[i].id : i \in 1..Len(Pool) }

\* abs((candidate_stat - treated_stat) / treated_stat) * 100, as a fraction.
RelativeDifference(candidate_stat, treated_stat) ==
    Frac(Abs(candidate_stat - treated_stat) * 100, Abs(treated_stat))

IsMinimal(i) ==
    \A j \in 1..Len(Pool) :
        ~FracLess(RelativeDifference(Pool[j].slope, TreatedStat),
                  RelativeDifference(Pool[i].slope, TreatedStat))

\* C1: with a non-zero treated statistic and a non-empty filtered pool,
\* compare_village returns a member of the filtered pool, and no candidate of
\* the pool has a strictly smaller relative difference than the returned one.
C1_ReturnsMinimalCandidate ==
    (Served /\ TreatedStat # 0 /\ Len(Pool) > 0) =>
        /\ ~selected.raised
        /\ selected.value # Null
        /\ \E i \in 1..Len(Pool) :
              /\ Pool[i].id = selected.value.id
              /\ IsMinimal(i)

\* A run where the minimum matters: the returned candidate is not the first of
\* the pool and the pool holds a candidate with a larger relative difference.
C1_Witness ==
    /\ Served /\ TreatedStat # 0 /\ Len(Pool) >= 2
    /\ selected.value # Null
    /\ selected.value.id # Pool[1].id
    /\ ~IsMinimal(1)

\* C2: when the filtered pool is empty, compare_village ends in an explicit
\* failure; it does not return a region or a null value as a normal result.
C2_EmptyPoolFails ==
    (Served /\ Len(Pool) = 0) => selected.raised

\* C3: when the treated statistic is exactly zero, compare_village ends in an
\* explicit failure and no candidate is returned as the match (stated on the
\* non-empty pools; the empty pool is the case of C2).
C3_ZeroStatisticFails ==
    (Served /\ TreatedStat = 0 /\ Len(Pool) > 0) =>
        /\ selected.raised
        /\ response.status # 200

FracIs(a, k) == a.n = k * a.d

\* The relative differences compare_village sorts by, and the percentage the
\* scenario expects for each statistic.
Scored == scored_fc("s1", request.village_name)
ExpectedPercent(slope) ==
    IF slope = 110 THEN 12 ELSE IF slope = 130 THEN 4 ELSE 60

\* C19: every candidate's slope_diff is abs((candidate - treated) / treated)
\* * 100; with the treated statistic 12.5 and the candidates 11.0, 13.0 and
\* 20.0 the differences are 12, 4 and 60, the candidate with 13.0 is returned
\* and the returned feature carries slope_diff = 4.
C19_ScenarioDifferences ==
    Served =>
        /\ Len(Scored) = Len(NeighbourSlopes)
        /\ \A i \in 1..Len(Scored) :
              /\ ~FracLess(Scored[i].slope_diff,
                           RelativeDifference(Scored[i].slope, TreatedStat))
              /\ ~FracLess(RelativeDifference(Scored[i].slope, TreatedStat),
                           Scored[i].slope_diff)
              /\ FracIs(Scored[i].slope_diff, ExpectedPercent(Scored[i].slope))
        /\ selected.value # Null
        /\ selected.value.slope = 130
        /\ "slope_diff" \in DOMAIN selected.value
        /\ FracIs(selected.value.slope_diff, 4)
        /\ response.status = 200 /\ response.body = selected.value

\* The scenario ran on a dataset where the candidate with 13.0 is the last of
\* the pool.
C19_Witness ==
    /\ Served /\ TreatedStat = 125
    /\ Len(Pool) = 3 /\ Pool[3].slope = 130
    /\ selected.value # Null /\ selected.value.id = Pool[3].id

\* The region a request designates by its village_id, and the candidates the
\* specification gives it: the features of its subdistrict that intersect its
\* geometry buffered by 5000, without itself and without empty names.
TreatedById == SelectSeq(shrug, LAMBDA f : f.id = request.village_id)
SiblingCandidateIds ==
    { shrug[i].id : i \in
        { k \in 1..Len(shrug) :
            /\ shrug[k].subdistric = "s1"
            /\ Intersects(shrug[k],
                          EEBuffer(Geometry(TreatedById), compare_village_buffer))
            /\ shrug[k].id # request.village_id
            /\ shrug[k].village_na # "" } }

\* C9: the candidates scored are exactly the siblings of the treated region
\* that intersect its 5000 buffer, minus the treated region itself and the
\* empty-named regions (a distinct sibling with the treated region's name is
\* kept), and the match is never the treated region nor an empty-named one.
C9_CandidateSetIsSiblings ==
    (Served /\ request.village_id # 0) =>
        /\ PoolIds = SiblingCandidateIds
        /\ selected.value # Null =>
              /\ selected.value.id # request.village_id
              /\ selected.value.village_na # ""

\* ------------------------------------------------- properties: the sampler
\* process_custom_polygon of polygon_processing.py ran and returned its dict.
PP_Returned ==
    result # NoRequest /\ result.impl = "polygon_processing" /\ ~result.raised
CP_Ran == result # NoRequest /\ result.impl = "custom_polygon"

\* The values of the run, recomputed from its inputs.
PolygonArea == PP_calculate_area(custom_polygon, failAt = "polygon_area")
MeasuredControlArea ==
    PP_measured_control_area(PP_default_control_area(control_village),
                             PP_first_feature(control_village),
                             failAt = "control_area")
ControlArea == PP_control_area(MeasuredControlArea, PolygonArea)
EffectiveArea == PP_effective_polygon_area(PolygonArea, ControlArea)

\* The sampling envelope of the run and its cropland pixels.
Envelope == gen_buffer(PP_first_feature(control_village), -result.radius)
EnvelopeMask == crop_mask_image(Envelope)

\* The single-circle fallback was taken (the except branch ran).
FallbackTaken == failAt = "sample"

\* A run on plain inputs: no backend call fails, the polygon has a positive
\* area, the control selector matches a feature and n is positive.
PlainInputs ==
    /\ failAt = "none"
    /\ Len(custom_polygon) > 0 /\ AreaOf(custom_polygon) > 0
    /\ Len(control_village) > 0
    /\ num_points > 0

\* n * 3.14159 * r^2 in square metres, r in centimetres (to 1 part in 10^4).
CirclesArea(n, r) ==
    LET sq == n * r * r
    IN  ((sq * 3) + (((sq \div 10000) * 14159) \div 10)) \div 10000

\* Within 0.1% plus one square metre.
AreaClose(a, b) == Abs(a - b) * 1000 <= b + 1000

\* C4: for polygon_area > 0 and n > 0, when the mask retains a pixel and the
\* fallback is not taken, exactly n circles are returned, all of one radius r,
\* and n * pi * r^2 equals the effective polygon area within tolerance.
C4_ExactlyNEqualCircles ==
    (PP_Returned /\ PlainInputs /\ result.polygon_area > 0 /\ num_points > 0
       /\ ~FallbackTaken /\ EnvelopeMask # {}) =>
        /\ Len(result.circles) = num_points
        /\ \A i \in 1..Len(result.circles) :
              result.circles[i].buffered_by = result.radius
        /\ AreaClose(CirclesArea(num_points, result.radius), EffectiveArea)

\* C5: whenever polygon_area > control_area the sampler does not fail, the
\* radius is computed from exactly 0.8 * control_area, and the result holds
\* both the raw and the effective polygon area.
C5_ClampReported ==
    /\ (PP_Returned /\ result.polygon_area > result.control_area) =>
          /\ result.radius =
                PP_calculate_radius((result.control_area * 8) \div 10, num_points)
          /\ {"polygon_area", "effective_polygon_area"} \subseteq DOMAIN result
    /\ (CP_Ran /\ PlainInputs
          /\ AreaOf(custom_polygon) > AreaOf(control_village)) =>
          ~result.raised

\* C6: if the cropland mask retains no pixel of the (non-empty) sampling
\* envelope, exactly one circle is returned, centred at the control region's
\* centroid, with the computed radius.
C6_EmptyMaskGivesOneCircle ==
    (PP_Returned /\ PlainInputs /\ Envelope # {} /\ EnvelopeMask = {}) =>
        /\ Len(result.circles) = 1
        /\ "centroid_of" \in DOMAIN result.circles[1].center
        /\ result.circles[1].buffered_by = result.radius

\* C7: every result the sampler returns holds at least one circle (stated on
\* plain inputs with a non-empty envelope, whatever the mask holds).
C7_CirclesNeverEmpty ==
    (PP_Returned /\ PlainInputs /\ Envelope # {}) => Len(result.circles) >= 1

\* The run that differs from this one only in that the control collection
\* really measures the reported control area: no floor is applied in it.
UndegradedTwin ==
    PP_result(custom_polygon,
              <<[id |-> control_village[1].id, area |-> result.control_area]>>,
              num_points, failAt,
              { result.points[i].pixel : i \in 1..Len(result.points) })

\* C10: every substitution is visible in the result.  A run in which the
\* control-area floor was applied returns something else than the run without
\* the floor that reports the same polygon_area and control_area; a clamped
\* run reports polygon_area > control_area; the fallback circle is marked by
\* its missing radius property.
C10_SubstitutionsVisible ==
    /\ (PP_Returned /\ PlainInputs /\ MeasuredControlArea < MinControlArea) =>
          result # UndegradedTwin
    /\ (PP_Returned /\ EffectiveArea # PolygonArea) =>
          result.polygon_area > result.control_area
    /\ (PP_Returned /\ FallbackTaken) =>
          /\ Len(result.circles) = 1
          /\ "radius" \notin DOMAIN result.circles[1].properties

\* ------------------------------------------------- properties: the helpers
AreaCall == call # NoRequest /\ call.fn = "calculate_area"
RadiusCall == call # NoRequest /\ call.fn = "calculate_radius"

\* C13: calculate_radius (both implementations) never raises, returns 30 when
\* polygon_area <= 0 or n <= 0, and a positive real radius,
\* sqrt(polygon_area / (n * pi)), for all other inputs.
C13_RadiusNeverDegenerate ==
    RadiusCall =>
        /\ call.returns = "float"
        /\ call.value > 0
        /\ (call.polygon_area <= 0 \/ call.n <= 0) =>
              call.value = MinRadius * CmPerM
        /\ (call.polygon_area > 0 /\ call.n > 0) =>
              call.value =
                  FloorSqrt(ScaledDivFloor(call.polygon_area, call.n * PiDigits))

\* C16: calculate_area of an empty feature collection returns 0 and does not
\* raise, in polygon_processing.py and in custom_polygon.py (the backend
\* answering its calls).
C16_EmptyCollectionHasAreaZero ==
    (AreaCall /\ call.fc = <<>> /\ ~call.fails) =>
        /\ call.returns = "float"
        /\ call.value = 0

\* calculate_area of polygon_processing.py was called on an empty collection.
C16_Witness ==
    /\ AreaCall /\ call.fc = <<>> /\ ~call.fails
    /\ call.impl = "polygon_processing"
    /\ call.value = 0

\* --------------------------------------- properties: the sampler, continued
Ran == result # NoRequest
Returned == result # NoRequest /\ ~result.raised

\* The arguments of the run are sound: a polygon of positive area, a control
\* selector that matches a feature and a positive n.
SoundArguments ==
    /\ Len(custom_polygon) > 0 /\ AreaOf(custom_polygon) > 0
    /\ Len(control_village) > 0
    /\ num_points > 0

\* The circles built from a sampled point.
SampledCircles ==
    { i \in 1..Len(result.circles) : "pixel" \in DOMAIN result.circles[i].center }

\* C11: a failure of a backend call inside the sampler reaches the caller as
\* an error that carries the backend's error; no substitute value replaces
\* the result of the failed call (stated on sound arguments).
C11_BackendFailurePropagates ==
    (Ran /\ SoundArguments /\ failAt # "none") =>
        /\ result.raised
        /\ result.error = "backend"

\* C12: when the measured control area is below 10,000 m2, process_custom_polygon
\* of polygon_processing.py does not fail and continues (radius, circles) with
\* a substituted control area that is at least twice polygon_area.
C12_SmallControlAreaSubstituted ==
    (Ran /\ result.impl = "polygon_processing" /\ failAt # "cv_size"
       /\ MeasuredControlArea < MinControlArea) =>
        /\ ~result.raised
        /\ result.control_area # MeasuredControlArea
        /\ result.control_area >= 2 * result.polygon_area
        /\ {"radius", "circles"} \subseteq DOMAIN result

\* A run where the floor applies and twice the polygon area is the larger of
\* the two substitutes.
C12_Witness ==
    /\ PP_Returned /\ failAt = "none"
    /\ MeasuredControlArea < MinControlArea
    /\ 2 * result.polygon_area > DefaultControlArea
    /\ result.control_area = 2 * result.polygon_area

\* C14: every circle built from a sampled point is buffered by the radius of
\* the run, and its centre is a pixel at least that radius inside the control
\* geometry (the inward distance of the envelope), so the circle stays inside.
C14_CirclesInsideControl ==
    Returned =>
        \A i \in SampledCircles :
            /\ result.circles[i].buffered_by = result.radius
            /\ (pixels[result.circles[i].center.pixel].depth * CmPerM)
                    >= result.circles[i].buffered_by

\* A run with a sampled circle whose control geometry has a pixel closer to
\* the boundary than the radius.
C14_Witness ==
    /\ Returned /\ SampledCircles # {}
    /\ \E p \in 1..Len(pixels) : (pixels[p].depth * CmPerM) < result.radius

\* C15: every circle of a result, the fallback circle included, carries the
\* radius, the centre coordinates, the control region's identifier and a
\* synthetic identifier (stated on sound arguments).
C15_CirclesCarryMetadata ==
    (Returned /\ SoundArguments) =>
        \A i \in 1..Len(result.circles) :
            {"radius", "center_x", "center_y", "control_village", "circle_id"}
                \subseteq DOMAIN result.circles[i].properties

AloneResults(p) ==
    IF args[p].op = "compare_village"
    THEN { compare_village(args[p].subdistrict_name, args[p].village_name).value }
    ELSE { PP_result(args[p].custom_polygon, args[p].control_village,
                     args[p].num_points, "none", S) :
             S \in PP_draws(args[p].custom_polygon, args[p].control_village,
                            args[p].num_points, "none") }

\* C17: calls of compare_village and process_custom_polygon share no mutable
\* state: in every interleaving of the steps of concurrent calls, each call
\* that has finished returned a result it returns when it runs alone.
C17_CallsAreIndependent ==
    \A p \in Calls : pc[p] = "done" => ret[p] \in AloneResults(p)

\* Every call finished, and two calls with different arguments returned
\* different results.
C17_Witness ==
    /\ \A p \in Calls : pc[p] = "done"
    /\ \E p, q \in Calls : args[p] # args[q] /\ ret[p] # ret[q]

C22_EmptyControlUsesDefault ==
    (PP_Returned /\ failAt = "none" /\ Len(control_village) = 0
       /\ Len(custom_polygon) > 0 /\ num_points > 0) =>
        result.control_area = EmptyControlArea

\* C24: the radius of every result of process_custom_polygon
\* (polygon_processing) is strictly positive, whatever the polygon, the
\* control collection and num_points.
C24_RadiusPositive ==
    PP_Returned => result.radius > 0

\* A run on an empty polygon, an empty control collection and num_points = 0.
C24_Witness ==
    /\ PP_Returned /\ failAt = "none"
    /\ Len(custom_polygon) = 0 /\ Len(control_village) = 0 /\ num_points = 0
    /\ result.radius = MinRadius * CmPerM

\* C25: for polygon_area >= 0 and n > 0 the effective polygon area and the
\* combined area of the n circles, n * pi * radius^2, never exceed the
\* control_area of the result.
C25_CirclesWithinControlArea ==
    (PP_Returned /\ result.polygon_area >= 0 /\ num_points > 0) =>
        /\ EffectiveArea <= result.control_area
        /\ CirclesArea(num_points, result.radius) <= result.control_area

\* C25 as amended: the same for polygon_area > 0 (for polygon_area = 0 the
\* radius is the minimum radius 30, whatever the control area).
C25_CirclesWithinControlAreaPositive ==
    (PP_Returned /\ result.polygon_area > 0 /\ num_points > 0) =>
        /\ EffectiveArea <= result.control_area
        /\ CirclesArea(num_points, result.radius) <= result.control_area

\* A run with a polygon larger than the control area: the clamp keeps the
\* circles within it.
C25_Witness ==
    /\ PP_Returned /\ failAt = "none" /\ num_points > 0
    /\ result.polygon_area > result.control_area
    /\ EffectiveArea < result.polygon_area

\* C26: whenever the control-area floor is applied (measured control area
\* below 10,000 m2) the 80% clamp is not: the polygon area does not exceed
\* the reported control area and the radius is that of the raw polygon area.
C26_FloorExcludesClamp ==
    (PP_Returned /\ MeasuredControlArea < MinControlArea) =>
        /\ result.polygon_area <= result.control_area
        /\ result.radius = PP_calculate_radius(result.polygon_area, num_points)

\* A run where the floor is applied to a control area that the polygon
\* exceeded before the substitution.
C26_Witness ==
    /\ PP_Returned /\ PlainInputs
    /\ MeasuredControlArea < MinControlArea
    /\ result.polygon_area > MeasuredControlArea

\* C27: for polygon_area > 0, n > 0 and a control area of at least 10,000 m2
\* that the polygon does not exceed, custom_polygon.process_custom_polygon
\* returns the polygon_area, control_area and radius that
\* polygon_processing.process_custom_polygon returned.
C27_ImplementationsAgree ==
    (PP_Returned /\ PlainInputs
       /\ control_village[1].area >= MinControlArea
       /\ AreaOf(custom_polygon) <= control_village[1].area) =>
        LET other == CP_result(custom_polygon, control_village, num_points,
                               failAt, {})
        IN  /\ ~other.raised
            /\ other.polygon_area = result.polygon_area
            /\ other.control_area = result.control_area
            /\ other.radius = result.radius

\* ------------------------------------------- properties: village_boundary
BoundaryCall ==
    call # NoRequest /\ call.fn = "village_boundary" /\ call.village_id # 0

\* The features of the subdistrict with the call's id, and with its name.
MatchedById ==
    SelectSeq(shrug, LAMBDA f : /\ f.subdistric = call.subdistrict_name
                                /\ f.id = call.village_id)
MatchedByName ==
    SelectSeq(shrug, LAMBDA f : /\ f.subdistric = call.subdistrict_name
                                /\ f.village_na = call.village_name)

\* C23: village_boundary called with a village_id returns the features with
\* that id when there is one; when there is none, or the id lookup raises, it
\* returns the features with the village name; it raises (ValueError) only
\* when the name-based lookup, the listing of the dataset included, fails.
C23_IdThenName ==
    BoundaryCall =>
        /\ (call.fail \notin {"dataset", "id_lookup"} /\ Len(MatchedById) > 0) =>
              /\ ~call.raised
              /\ call.value = MatchedById
        /\ (call.fail \notin {"dataset", "name_lookup"}
               /\ (Len(MatchedById) = 0 \/ call.fail = "id_lookup")) =>
              /\ ~call.raised
              /\ call.value = MatchedByName
        /\ call.raised =>
              /\ call.fail \in {"dataset", "name_lookup"}
              /\ call.error = "ValueError"

\* A call whose id matches no feature of the subdistrict and whose name
\* matches two.
C23_Witness ==
    /\ BoundaryCall /\ call.fail = "none"
    /\ Len(MatchedById) = 0
    /\ ~call.raised /\ Len(call.value) = 2

\* ------------------------------------------------ properties: the columns
NormalizeCall == call # NoRequest /\ call.fn = "_normalize_columns"

\* C30: _normalize_columns returns one entry per input column, in input
\* order, and the 'variable' values are non-empty and pairwise distinct, also
\* for duplicate names, empty names and names that end in _2, _3, ...
C30_VariablesDistinct ==
    NormalizeCall =>
        /\ Len(call.value) = Len(call.columns)
        /\ \A i \in 1..Len(call.value) :
              /\ call.value[i].original = call.columns[i]
              /\ call.value[i].variable # <<>>
        /\ \A i, j \in 1..Len(call.value) :
              call.value[i].variable = call.value[j].variable => i = j

\* The columns "a", "a_2", "a": the third becomes a_3.
C30_Witness ==
    /\ NormalizeCall
    /\ call.columns = << <<"a">>, <<"a", "_", "2">>, <<"a">> >>
    /\ call.value[3].variable = <<"a", "_", "3">>

\* ---------------------------------------------- properties: the ingestion
Run == store'.runs = store.runs + 1

\* Every row of the file has an id.
HasIds(file) == \A i \in 1..Len(file) : file[i].id # Null

\* The reading of a row of the file is in the table.
HasReading(dataset, row) ==
    \E k \in 1..Len(dataset.series) :
        /\ dataset.series[k].object = StrOf(row.id)
        /\ dataset.series[k].timestamp = row.timestamp
        /\ row.value # Null
        /\ dataset.series[k].value = row.value.v

\* Every row of the file is stored: its object and, for a time series, its
\* reading.
AllRowsIngested(dataset) ==
    \A i \in 1..Len(dataset.file) :
        /\ \E o \in dataset.objects : o.external_id = StrOf(dataset.file[i].id)
        /\ ~ is_snapshot(dataset.file) => HasReading(dataset, dataset.file[i])

\* C28: a run of ingest_dataset that ends with status FAILED leaves no
\* UnifiedObject or UnifiedTimeSeries row it wrote, and a run ends with status
\* INGESTED only if every row of the file was ingested.
C28_FailedRunLeavesNothing ==
    [][Run => /\ (store'.status = "FAILED" /\ HasIds(store.file)) =>
                    /\ store'.objects = store.objects
                    /\ store'.series = store.series
              /\ store'.status = "INGESTED" => AllRowsIngested(store')]_vars

\* C29: a second successful run of ingest_dataset on the same dataset, with
\* the same mapping, leaves the UnifiedObject rows and the UnifiedTimeSeries
\* readings as the first run left them.
C29_IngestIdempotent ==
    [][(/\ Run
        /\ store.status = "INGESTED"
        /\ store'.status = "INGESTED"
        /\ store'.column_mapping = store.column_mapping)
       => /\ store'.objects = store.objects
          /\ store'.series = store.series]_vars

====
